---- MODULE Spec2Model ----
(***************************************************************************)
(* LibraryManager of voicevox_engine/library_manager.py: the installation  *)
(* root as a tree of files, the catalog file read by                       *)
(* downloadable_libraries, and the three operations install_library,       *)
(* installed_libraries and uninstall_library.                              *)
(***************************************************************************)
EXTENDS Integers, Sequences, FiniteSets, TLC

VARIABLES
    library_root_dir,         \* directory name -> (file path -> file content)
    catalog,                  \* the list json.load gives for downloadable_libraries.json
    supported_vvlib_version,  \* the parsed Version kept by __init__
    result,                   \* what the last call returned or raised
    installed_ok,             \* history: ids whose install returned, not uninstalled since
    rejected,                 \* history: ids an install of which was rejected at a check
                              \* of the file, not uninstalled since
    calls,                    \* the call each thread of the server is in, and the
                              \* statement it is at
    raced                     \* history: ids extracted into a directory that was
                              \* deleted under the running install

vars == <<library_root_dir, catalog, supported_vvlib_version, result,
          installed_ok, rejected, calls, raced>>

----------------------------------------------------------------------------
(* Bounds of the explored inputs.                                          *)

MaxCatalogLen == 2      \* longest catalog list
MaxVer == 1             \* largest major / minor / patch number of a version string
MaxPre == 1             \* largest pre-release number of a version string

----------------------------------------------------------------------------
(* Names fixed by the code.                                                *)

INFO_FILE == "metas.json"
MANIFEST_FILE == "vvlib_manifest.json"
PAYLOAD_FILE == "model.bin"

engine_uuid == "engine-0"
OTHER_ENGINE == "engine-1"

LibraryIds == {"A", "B"}

None == <<>>

----------------------------------------------------------------------------
(* semver.Version.  A version string is the sequence of its numbers:       *)
(* <<1,0,0>> is "1.0.0", <<1,0,0,2>> is "1.0.0-rc.2", <<1,0>> is "1.0".    *)

VersionNumbers == 0..MaxVer

ValidVersionStrings ==
    {<<a, b, c>> : a \in VersionNumbers, b \in VersionNumbers, c \in VersionNumbers}
    \cup {s \o <<p>> : s \in {<<a, b, c>> : a \in VersionNumbers, b \in VersionNumbers,
                                           c \in VersionNumbers},
                      p \in 1..MaxPre}

VersionStrings == ValidVersionStrings \cup {<<1, 0>>}

\* Version.is_valid: the string has the three numbers and at most one pre-release
is_valid(s) == Len(s) \in {3, 4}

\* Version.parse on a valid string; prerelease 0 stands for no pre-release
parse(s) ==
    [major |-> s[1], minor |-> s[2], patch |-> s[3],
     prerelease |-> IF Len(s) = 4 THEN s[4] ELSE 0]

cmp(a, b) == IF a < b THEN -1 ELSE IF a > b THEN 1 ELSE 0

\* Version.compare: major, minor, patch in this order, then the pre-release,
\* where a version without pre-release ranks above the same version with one
compare(v, w) ==
    IF v.major # w.major THEN cmp(v.major, w.major)
    ELSE IF v.minor # w.minor THEN cmp(v.minor, w.minor)
    ELSE IF v.patch # w.patch THEN cmp(v.patch, w.patch)
    ELSE IF v.prerelease = w.prerelease THEN 0
    ELSE IF v.prerelease = 0 THEN 1
    ELSE IF w.prerelease = 0 THEN -1
    ELSE cmp(v.prerelease, w.prerelease)

\* mutant: >= in place of >
version_ge(v, w) == compare(v, w) >= 0

\* vvlib_manifest_version > self.supported_vvlib_version
version_gt(v, w) == compare(v, w) > 0

\* mutant: None is treated as 1.1.1
init_supported_vvlib_version_high(arg) ==
    IF arg = None THEN parse(<<1, 1, 1>>) ELSE parse(arg)

\* __init__: None is treated as 0.0.0
init_supported_vvlib_version(arg) ==
    IF arg = None THEN parse(<<0, 0, 0>>) ELSE parse(arg)

----------------------------------------------------------------------------
(* File contents.  A file is bytes that do not decode as UTF-8, text that  *)
(* is no JSON, or a JSON document.                                         *)

BytesContent == [kind |-> "bytes"]
TextContent == [kind |-> "text"]

\* json.dump(library_info, f): the file holds the document as JSON text
json_dump(doc) == [kind |-> "json", doc |-> doc]

\* json.load / json.loads(... .decode("utf-8")): the exception, or "none"
json_load_exc(content) ==
    IF content.kind = "bytes" THEN "UnicodeDecodeError"
    ELSE IF content.kind = "text" THEN "JSONDecodeError"
    ELSE "none"

----------------------------------------------------------------------------
(* The catalog.                                                            *)

Descriptor(id) == [uuid |-> id, name |-> "library " \o id]

Descriptors == {Descriptor(id) : id \in LibraryIds}

Catalogs == UNION {[1..n -> Descriptors] : n \in 0..MaxCatalogLen}

\* downloadable_libraries: libraries[0]["speakers"][0] raises IndexError on an
\* empty list; otherwise every entry is parsed and returned in order
downloadable_libraries(libraries) ==
    IF Len(libraries) = 0
    THEN [exc |-> "IndexError", value |-> <<>>]
    ELSE [exc |-> "none", value |-> libraries]

\* the for ... else loop of install_library: index of the first descriptor
\* whose uuid is library_id, 0 when the loop ends without break
find_library(libs, library_id) ==
    IF \E i \in 1..Len(libs) : libs[i].uuid = library_id
    THEN CHOOSE i \in 1..Len(libs) :
            /\ libs[i].uuid = library_id
            /\ \A j \in 1..(i - 1) : libs[j].uuid # library_id
    ELSE 0

----------------------------------------------------------------------------
(* Archives.                                                               *)

ManifestDoc(v, mv, e) == [version |-> v, manifest_version |-> mv, engine_uuid |-> e]

\* a manifest without its engine_uuid field
PartialManifestDoc == [version |-> <<1, 0, 0>>, manifest_version |-> <<0, 0, 0>>]

ZipFile(entries, bad) == [is_zipfile |-> TRUE, entries |-> entries, bad |-> bad]

NotAZipFile == [is_zipfile |-> FALSE, entries |-> <<>>, bad |-> {}]

\* the entries besides the manifest: model.bin and a file named metas.json, each
\* present or not
Payloads ==
    {<<>>,
     (PAYLOAD_FILE :> BytesContent),
     (INFO_FILE :> TextContent),
     (PAYLOAD_FILE :> BytesContent) @@ (INFO_FILE :> TextContent)}

FullPayload == (PAYLOAD_FILE :> BytesContent) @@ (INFO_FILE :> TextContent)

SomeVersionStrings == {<<0, 0, 0>>, <<1, 0, 0>>, <<1, 0>>}

\* what the manifest entry of an archive holds
ManifestContents ==
    {BytesContent, TextContent, json_dump(PartialManifestDoc)}
    \cup {json_dump(ManifestDoc(v, mv, e)) :
            v \in {<<1, 0, 0>>, <<1, 0>>},
            mv \in SomeVersionStrings,
            e \in {engine_uuid, OTHER_ENGINE}}

\* archives with a well-formed manifest for this engine, every payload, and the
\* CRC of model.bin good or bad
PayloadArchives ==
    {ZipFile((MANIFEST_FILE :> json_dump(ManifestDoc(<<1, 0, 0>>, mv, engine_uuid))) @@ p, b) :
        mv \in {<<0, 0, 0>>, <<0, 1, 0>>},
        p \in Payloads,
        b \in {{}, {PAYLOAD_FILE}}}

\* archives with every manifest content and the full payload, and one without
\* a manifest
ManifestArchives ==
    {ZipFile((MANIFEST_FILE :> m) @@ FullPayload, {}) : m \in ManifestContents}
    \cup {ZipFile(FullPayload, {})}

Archives ==
    {NotAZipFile}
    \cup {a \in PayloadArchives : a.bad \subseteq DOMAIN a.entries}
    \cup ManifestArchives

----------------------------------------------------------------------------
(* Results of a call.                                                      *)

Returned(op, id, ret) ==
    [op |-> op, id |-> id, exc |-> "none", status |-> 200, detail |-> "", ret |-> ret]

\* raise HTTPException(status_code=..., detail=...)
HTTPException(op, id, status, detail) ==
    [op |-> op, id |-> id, exc |-> "HTTPException", status |-> status,
     detail |-> detail, ret |-> ""]

\* an exception no handler of the module catches
Raised(op, id, exc) ==
    [op |-> op, id |-> id, exc |-> exc, status |-> 500, detail |-> "", ret |-> ""]

----------------------------------------------------------------------------
(* install_library                                                         *)

\* mutant: a directory that is made holds a metadata document at once
mkdir_with_info(root, library_id) ==
    IF library_id \in DOMAIN root
    THEN [exc |-> "none", root |-> root]
    ELSE [exc |-> "none",
          root |-> root @@ (library_id :> (INFO_FILE :> json_dump(Descriptor(library_id))))]

\* mutant: mkdir without exist_ok
mkdir_exclusive(root, library_id) ==
    IF library_id \in DOMAIN root
    THEN [exc |-> "FileExistsError", root |-> root]
    ELSE [exc |-> "none", root |-> root @@ (library_id :> <<>>)]

\* library_dir.mkdir(exist_ok=True)
mkdir(root, library_id) ==
    IF library_id \in DOMAIN root
    THEN [exc |-> "none", root |-> root]
    ELSE [exc |-> "none", root |-> root @@ (library_id :> <<>>)]

\* open(path, "w") and write: the file is created or replaced
write_file(dir, path, content) == (path :> content) @@ dir

\* mutant: a metadata document that is there is kept
write_info_keep(root, library_id, library_info) ==
    [root EXCEPT ![library_id] = @ @@ (INFO_FILE :> json_dump(library_info))]

\* with open(library_dir / INFO_FILE, "w") ...: json.dump(library_info, f)
write_info(root, library_id, library_info) ==
    [root EXCEPT ![library_id] = write_file(@, INFO_FILE, json_dump(library_info))]

\* VvlibManifest.validate: the required fields are there
manifest_schema_valid(doc) ==
    {"version", "manifest_version", "engine_uuid"} \subseteq DOMAIN doc

\* zipfile.is_zipfile(file)
is_zipfile(file) == file.is_zipfile

\* mutant: the CRC self-test is left out
testzip_skipped(file) == "None"

\* zf.testzip(): the name of a file whose CRC is bad, or "None"
testzip(file) == IF file.bad = {} THEN "None" ELSE CHOOSE n \in file.bad : TRUE

\* mutant: the engine check is left out
engine_unchecked(vvlib_manifest) == TRUE

\* vvlib_manifest["engine_uuid"] != self.engine_uuid does not hold
engine_matches(vvlib_manifest) == vvlib_manifest.engine_uuid = engine_uuid

\* the checks of install_library on the file, in the order of the code: the
\* detail of the first HTTPException raised, or "ok"
validate_vvlib(file, supported) ==
    IF ~is_zipfile(file) THEN "invalid_file"
    ELSE IF testzip(file) # "None" THEN "invalid_file"
    ELSE IF MANIFEST_FILE \notin DOMAIN file.entries THEN "manifest_missing"
    ELSE IF json_load_exc(file.entries[MANIFEST_FILE]) # "none" THEN "manifest_invalid"
    ELSE LET vvlib_manifest == file.entries[MANIFEST_FILE].doc IN
        IF ~manifest_schema_valid(vvlib_manifest) THEN "manifest_bad_data"
        ELSE IF ~is_valid(vvlib_manifest.version) THEN "version_invalid"
        ELSE IF ~is_valid(vvlib_manifest.manifest_version) THEN "manifest_version_invalid"
        ELSE IF version_gt(parse(vvlib_manifest.manifest_version), supported)
            THEN "unsupported"
        ELSE IF ~engine_matches(vvlib_manifest) THEN "engine_mismatch"
        ELSE "ok"

\* mutant: nothing is written when the directory is missing
extractall_existing(root, library_id, file) ==
    IF library_id \in DOMAIN root
    THEN [root EXCEPT ![library_id] = file.entries @@ @]
    ELSE root

\* mutant: the directory is emptied but for the metadata document before the
\* entries are written
extractall_clean(root, library_id, file) ==
    [root EXCEPT ![library_id] = file.entries @@ (INFO_FILE :> @[INFO_FILE])]

\* mutant: a file that is there is kept, not replaced
extractall_keep(root, library_id, file) ==
    [root EXCEPT ![library_id] = @ @@ file.entries]

\* zf.extractall(library_dir): every entry is written at its path, replacing
\* a file that is there; a directory that is missing is made for the entries
extractall(root, library_id, file) ==
    IF library_id \in DOMAIN root
    THEN [root EXCEPT ![library_id] = file.entries @@ @]
    ELSE root @@ (library_id :> file.entries)

\* the whole of install_library: the root it leaves and what it returns or raises
install_library(root, libraries, supported, library_id, file) ==
    LET libs == downloadable_libraries(libraries) IN
    IF libs.exc # "none"
    THEN [root |-> root, result |-> Raised("install", library_id, libs.exc)]
    ELSE LET i == find_library(libs.value, library_id) IN
        IF i = 0
        THEN [root |-> root,
              result |-> HTTPException("install", library_id, 404, "not_found")]
        ELSE LET made == mkdir(root, library_id) IN
            IF made.exc # "none"
            THEN [root |-> root, result |-> Raised("install", library_id, made.exc)]
            ELSE LET written == write_info(made.root, library_id, libs.value[i])
                     check == validate_vvlib(file, supported)
                 IN IF check # "ok"
                    THEN [root |-> written,
                          result |-> HTTPException("install", library_id, 422, check)]
                    ELSE [root |-> extractall(written, library_id, file),
                          result |-> Returned("install", library_id, library_id)]

----------------------------------------------------------------------------
(* installed_libraries                                                     *)

\* InstalledLibraryInfo(**info, uninstallable=True) accepts the document
info_schema_valid(doc) ==
    /\ {"uuid", "name"} \subseteq DOMAIN doc
    /\ "uninstallable" \notin DOMAIN doc

\* reading one library directory: the exception, or "none"
read_info_exc(dir) ==
    IF INFO_FILE \notin DOMAIN dir THEN "FileNotFoundError"
    ELSE IF json_load_exc(dir[INFO_FILE]) # "none" THEN json_load_exc(dir[INFO_FILE])
    ELSE IF ~info_schema_valid(dir[INFO_FILE].doc) THEN "ValidationError"
    ELSE "none"

\* mutant: a directory that cannot be read is skipped
installed_libraries_excs_skipping(root) == {}

\* the exceptions installed_libraries can raise: iterdir gives the directories
\* in no fixed order, and the first unreadable one ends the call
installed_libraries_excs(root) ==
    {read_info_exc(root[d]) : d \in DOMAIN root} \ {"none"}

\* the mapping installed_libraries returns when every directory is readable;
\* the root holds directories only, since nothing of the module writes a file
\* at its top level
installed_libraries(root) ==
    [d \in DOMAIN root |-> root[d][INFO_FILE].doc @@ [uninstallable |-> TRUE]]

\* the results a call of installed_libraries can have: the mapping is
\* returned, or the exception of an unreadable directory leaves the call
installed_libraries_call(root) ==
    IF installed_libraries_excs(root) = {}
    THEN {Returned("list", "", "")}
    ELSE {Raised("list", "", e) : e \in installed_libraries_excs(root)}

----------------------------------------------------------------------------
(* uninstall_library                                                       *)

\* mutant: every directory of the root is deleted
rmtree_all(root, library_id) == [d \in {} |-> root[d]]

\* mutant: the files are deleted and the directory stays
rmtree_files(root, library_id) == [root EXCEPT ![library_id] = <<>>]

\* shutil.rmtree(self.library_root_dir / library_id)
rmtree(root, library_id) == [d \in DOMAIN root \ {library_id} |-> root[d]]

\* uninstall_library once the listing has succeeded; rmtree is taken to
\* succeed (its failure, lines 237-240, is a failure of the file system)
uninstall_library(root, library_id) ==
    LET installed == installed_libraries(root) IN
    IF library_id \notin DOMAIN installed
    THEN [root |-> root,
          result |-> HTTPException("uninstall", library_id, 404, "not_installed")]
    ELSE IF ~installed[library_id].uninstallable
    THEN [root |-> root,
          result |-> HTTPException("uninstall", library_id, 403, "not_uninstallable")]
    ELSE [root |-> rmtree(root, library_id),
          result |-> Returned("uninstall", library_id, "")]

\* the outcomes a call of uninstall_library can have: an exception of
\* self.installed_libraries() (line 222) leaves the call before any check
uninstall_library_call(root, library_id) ==
    IF installed_libraries_excs(root) = {}
    THEN {uninstall_library(root, library_id)}
    ELSE {[root |-> root, result |-> Raised("uninstall", library_id, e)] :
             e \in installed_libraries_excs(root)}

----------------------------------------------------------------------------
(* The state machine.                                                      *)

\* the threads that serve requests
Procs == {"p1", "p2"}

\* a thread that is in no call
Idle == [op |-> "idle", id |-> "", file |-> NotAZipFile, library_info |-> <<>>,
         pc |-> "idle"]

\* the maximum the engine is configured with
SupportedArgs == {<<0, 1, 0>>}

Init ==
    /\ library_root_dir = <<>>
    /\ catalog \in Catalogs
    /\ \E arg \in SupportedArgs :
          supported_vvlib_version = init_supported_vvlib_version(arg)
    /\ result = Returned("init", "", "")
    /\ installed_ok = {}
    /\ rejected = {}
    /\ calls = [p \in Procs |-> Idle]
    /\ raced = {}

Install(library_id, file) ==
    LET out == install_library(library_root_dir, catalog, supported_vvlib_version,
                               library_id, file)
    IN /\ library_root_dir' = out.root
       /\ result' = out.result
       /\ installed_ok' = IF out.result.exc = "none"
                          THEN installed_ok \cup {library_id} ELSE installed_ok
       /\ rejected' = IF out.result.status = 422
                      THEN rejected \cup {library_id} ELSE rejected
       /\ UNCHANGED <<catalog, supported_vvlib_version, calls, raced>>

List ==
    /\ \E res \in installed_libraries_call(library_root_dir) : result' = res
    /\ UNCHANGED <<library_root_dir, catalog, supported_vvlib_version,
                   installed_ok, rejected, calls, raced>>

Uninstall(library_id) ==
    /\ \E out \in uninstall_library_call(library_root_dir, library_id) :
          /\ library_root_dir' = out.root
          /\ result' = out.result
          /\ installed_ok' = IF out.result.exc = "none"
                             THEN installed_ok \ {library_id} ELSE installed_ok
          /\ rejected' = IF out.result.exc = "none"
                         THEN rejected \ {library_id} ELSE rejected
    /\ UNCHANGED <<catalog, supported_vvlib_version, calls, raced>>

\* the catalog file is replaced from outside
SetCatalog(libraries) ==
    /\ catalog' = libraries
    /\ catalog' # catalog
    /\ UNCHANGED <<library_root_dir, supported_vvlib_version, result,
                   installed_ok, rejected, calls, raced>>

Next ==
    \/ \E id \in LibraryIds, file \in Archives : Install(id, file)
    \/ List
    \/ \E id \in LibraryIds : Uninstall(id)
    \/ \E libraries \in Catalogs : SetCatalog(libraries)

Spec == Init /\ [][Next]_vars

----------------------------------------------------------------------------
(* The manifest checks over every version string: one catalogued library,  *)
(* every configured maximum, and archives whose manifest carries every     *)
(* version, manifest_version and engine_uuid.  The library is installed     *)
(* when it has no directory, and uninstalled.                               *)

VersionArchives ==
    {ZipFile((MANIFEST_FILE :> json_dump(ManifestDoc(v, mv, e)))
                @@ (PAYLOAD_FILE :> BytesContent), {}) :
        v \in {<<1, 0, 0>>, <<1, 0>>},
        mv \in VersionStrings,
        e \in {engine_uuid, OTHER_ENGINE}}

InitVersions ==
    /\ library_root_dir = <<>>
    /\ catalog = <<Descriptor("A")>>
    /\ \E arg \in {None} \cup ValidVersionStrings :
          supported_vvlib_version = init_supported_vvlib_version(arg)
    /\ result = Returned("init", "", "")
    /\ installed_ok = {}
    /\ rejected = {}
    /\ calls = [p \in Procs |-> Idle]
    /\ raced = {}

NextVersions ==
    \/ \E file \in VersionArchives :
          "A" \notin DOMAIN library_root_dir /\ Install("A", file)
    \/ Uninstall("A")

SpecVersions == InitVersions /\ [][NextVersions]_vars

----------------------------------------------------------------------------
(* Calls that overlap.  Nothing in the module locks: each thread runs its   *)
(* call statement by statement, and the statements of two calls interleave. *)
(* A step is one statement that reads or writes the root (mkdir, the write  *)
(* of metas.json, extractall, the listing, rmtree), or the checks of the    *)
(* file, which touch the file alone.                                        *)

\* the archives of the overlapping calls: a well-formed one with model.bin,
\* a well-formed one that also has an entry metas.json, and no zip file
RaceArchives ==
    {ZipFile((MANIFEST_FILE :> json_dump(ManifestDoc(<<1, 0, 0>>, <<0, 0, 0>>, engine_uuid)))
                @@ (PAYLOAD_FILE :> BytesContent), {}),
     ZipFile((MANIFEST_FILE :> json_dump(ManifestDoc(<<1, 0, 0>>, <<0, 0, 0>>, engine_uuid)))
                @@ FullPayload, {}),
     NotAZipFile}

InitRace ==
    /\ library_root_dir = <<>>
    /\ catalog = <<Descriptor("A"), Descriptor("B")>>
    /\ \E arg \in SupportedArgs :
          supported_vvlib_version = init_supported_vvlib_version(arg)
    /\ result = Returned("init", "", "")
    /\ installed_ok = {}
    /\ rejected = {}
    /\ calls = [p \in Procs |-> Idle]
    /\ raced = {}

\* the call of thread p ends with res
Finish(p, res) ==
    /\ calls' = [calls EXCEPT ![p] = Idle]
    /\ result' = res

\* open(library_dir / INFO_FILE, "w"): the exception when the directory is
\* not there, or "none"
open_w_exc(root, library_id) ==
    IF library_id \in DOMAIN root THEN "none" ELSE "FileNotFoundError"

\* shutil.rmtree on a directory that is not there raises, and line 237 turns
\* the exception into an HTTPException 500
rmtree_exc(root, library_id) ==
    IF library_id \in DOMAIN root THEN "none" ELSE "FileNotFoundError"

\* install_library is called: the lookup in the catalog, lines 125-132
InstallLookup(p, library_id, file) ==
    /\ calls[p] = Idle
    /\ LET libs == downloadable_libraries(catalog) IN
       IF libs.exc # "none"
       THEN Finish(p, Raised("install", library_id, libs.exc))
       ELSE LET i == find_library(libs.value, library_id) IN
            IF i = 0
            THEN Finish(p, HTTPException("install", library_id, 404, "not_found"))
            ELSE /\ calls' = [calls EXCEPT ![p] =
                                 [op |-> "install", id |-> library_id, file |-> file,
                                  library_info |-> libs.value[i], pc |-> "mkdir"]]
                 /\ UNCHANGED result
    /\ UNCHANGED <<library_root_dir, catalog, supported_vvlib_version,
                   installed_ok, rejected, raced>>

\* library_dir.mkdir(exist_ok=True), line 136
InstallMkdir(p) ==
    /\ calls[p].op = "install"
    /\ calls[p].pc = "mkdir"
    /\ library_root_dir' = mkdir(library_root_dir, calls[p].id).root
    /\ calls' = [calls EXCEPT ![p].pc = "write_info"]
    /\ UNCHANGED <<catalog, supported_vvlib_version, result, installed_ok,
                   rejected, raced>>

\* the write of metas.json, lines 139-140
InstallWriteInfo(p) ==
    /\ calls[p].op = "install"
    /\ calls[p].pc = "write_info"
    /\ IF open_w_exc(library_root_dir, calls[p].id) # "none"
       THEN /\ Finish(p, Raised("install", calls[p].id,
                                open_w_exc(library_root_dir, calls[p].id)))
            /\ UNCHANGED library_root_dir
       ELSE /\ library_root_dir' = write_info(library_root_dir, calls[p].id,
                                              calls[p].library_info)
            /\ calls' = [calls EXCEPT ![p].pc = "validate"]
            /\ UNCHANGED result
    /\ UNCHANGED <<catalog, supported_vvlib_version, installed_ok, rejected, raced>>

\* the checks of the file, lines 143-206
InstallValidate(p) ==
    /\ calls[p].op = "install"
    /\ calls[p].pc = "validate"
    /\ LET check == validate_vvlib(calls[p].file, supported_vvlib_version) IN
       IF check # "ok"
       THEN /\ Finish(p, HTTPException("install", calls[p].id, 422, check))
            /\ rejected' = rejected \cup {calls[p].id}
       ELSE /\ calls' = [calls EXCEPT ![p].pc = "extract"]
            /\ UNCHANGED <<result, rejected>>
    /\ UNCHANGED <<library_root_dir, catalog, supported_vvlib_version,
                   installed_ok, raced>>

\* zf.extractall(library_dir) and the return, lines 209-211
InstallExtract(p) ==
    /\ calls[p].op = "install"
    /\ calls[p].pc = "extract"
    /\ library_root_dir' = extractall(library_root_dir, calls[p].id, calls[p].file)
    /\ Finish(p, Returned("install", calls[p].id, calls[p].id))
    /\ installed_ok' = installed_ok \cup {calls[p].id}
    /\ raced' = IF calls[p].id \in DOMAIN library_root_dir
                THEN raced ELSE raced \cup {calls[p].id}
    /\ UNCHANGED <<catalog, supported_vvlib_version, rejected>>

\* installed_libraries is called and runs to its end
CallList(p) ==
    /\ calls[p] = Idle
    /\ \E res \in installed_libraries_call(library_root_dir) : Finish(p, res)
    /\ UNCHANGED <<library_root_dir, catalog, supported_vvlib_version,
                   installed_ok, rejected, raced>>

\* uninstall_library is called: the listing and the two checks on it, lines
\* 222-232
UninstallList(p, library_id) ==
    /\ calls[p] = Idle
    /\ \E out \in uninstall_library_call(library_root_dir, library_id) :
          IF out.result.exc # "none"
          THEN Finish(p, out.result)
          ELSE /\ calls' = [calls EXCEPT ![p] =
                               [op |-> "uninstall", id |-> library_id,
                                file |-> NotAZipFile, library_info |-> <<>>,
                                pc |-> "rmtree"]]
               /\ UNCHANGED result
    /\ UNCHANGED <<library_root_dir, catalog, supported_vvlib_version,
                   installed_ok, rejected, raced>>

\* shutil.rmtree(self.library_root_dir / library_id), lines 235-240
UninstallRmtree(p) ==
    /\ calls[p].op = "uninstall"
    /\ calls[p].pc = "rmtree"
    /\ IF rmtree_exc(library_root_dir, calls[p].id) # "none"
       THEN /\ Finish(p, HTTPException("uninstall", calls[p].id, 500, "delete_failed"))
            /\ UNCHANGED <<library_root_dir, installed_ok, rejected>>
       ELSE /\ library_root_dir' = rmtree(library_root_dir, calls[p].id)
            /\ Finish(p, Returned("uninstall", calls[p].id, ""))
            /\ installed_ok' = installed_ok \ {calls[p].id}
            /\ rejected' = rejected \ {calls[p].id}
    /\ UNCHANGED <<catalog, supported_vvlib_version, raced>>

NextRace ==
    \E p \in Procs :
        \/ \E id \in LibraryIds, file \in RaceArchives : InstallLookup(p, id, file)
        \/ InstallMkdir(p)
        \/ InstallWriteInfo(p)
        \/ InstallValidate(p)
        \/ InstallExtract(p)
        \/ CallList(p)
        \/ \E id \in LibraryIds : UninstallList(p, id)
        \/ UninstallRmtree(p)

SpecRace == InitRace /\ [][NextRace]_vars

----------------------------------------------------------------------------
(* The claims.  A step of install_library is a step in which Install holds *)
(* for the id of result' and some file; the conditions of a claim on the   *)
(* file and on the catalog are written here from the claim's words.        *)

\* the catalog lists library_id
InCatalog(library_id) == \E i \in 1..Len(catalog) : catalog[i].uuid = library_id

\* the descriptor the lookup finds: the first one with this uuid
FirstDescriptor(library_id) ==
    catalog[CHOOSE i \in 1..Len(catalog) :
                /\ catalog[i].uuid = library_id
                /\ \A j \in 1..Len(catalog) : catalog[j].uuid = library_id => i <= j]

\* the manifest of the file can be read as a document with all its fields
ManifestReadable(file) ==
    /\ file.is_zipfile
    /\ file.bad = {}
    /\ MANIFEST_FILE \in DOMAIN file.entries
    /\ file.entries[MANIFEST_FILE].kind = "json"
    /\ {"version", "manifest_version", "engine_uuid"}
          \subseteq DOMAIN file.entries[MANIFEST_FILE].doc

ManifestOf(file) == file.entries[MANIFEST_FILE].doc

\* the file passes every check: valid zip, CRC self-test, manifest present and
\* schema-valid, valid version, manifest_version at most the maximum, engine_uuid
\* of the host
WellFormedArchive(file) ==
    /\ ManifestReadable(file)
    /\ Len(ManifestOf(file).version) \in {3, 4}
    /\ Len(ManifestOf(file).manifest_version) \in {3, 4}
    /\ ~version_gt(parse(ManifestOf(file).manifest_version), supported_vvlib_version)
    /\ ManifestOf(file).engine_uuid = engine_uuid

\* what install_library does when called in the current state
Out(library_id, file) ==
    install_library(library_root_dir, catalog, supported_vvlib_version, library_id, file)

C2_AbsentIdIsNotFound ==
    [][\A file \in Archives :
          (/\ result'.op = "install"
           /\ ~InCatalog(result'.id)
           /\ Install(result'.id, file))
          => (/\ result'.exc = "HTTPException"
              /\ result'.status = 404
              /\ library_root_dir' = library_root_dir)]_vars

\* the order of the claim's words: major, then minor, then patch
TripleGreater(v, w) ==
    \/ v.major > w.major
    \/ v.major = w.major /\ v.minor > w.minor
    \/ v.major = w.major /\ v.minor = w.minor /\ v.patch > w.patch

\* semantic-version precedence: the triple first; on equal triples a version
\* without pre-release is above one with a pre-release, and two pre-releases
\* are ordered by their number
PrecedenceGreater(v, w) ==
    \/ TripleGreater(v, w)
    \/ /\ v.major = w.major /\ v.minor = w.minor /\ v.patch = w.patch
       /\ \/ v.prerelease = 0 /\ w.prerelease # 0
          \/ v.prerelease # 0 /\ w.prerelease # 0 /\ v.prerelease > w.prerelease

\* the manifest of the file is readable and its manifest_version is a version
HasManifestVersion(file) ==
    /\ ManifestReadable(file)
    /\ Len(ManifestOf(file).manifest_version) \in {3, 4}

\* C3 as written: for a catalogued library, a manifest_version above the maximum
\* in the order major, minor, patch is rejected with 422 whatever the other
\* fields are, and one equal to or below the maximum in that order is not
\* rejected as unsupported.
C3_TripleOrderGate ==
    [][\A file \in VersionArchives :
          (/\ result'.op = "install"
           /\ HasManifestVersion(file)
           /\ Install("A", file))
          => IF TripleGreater(parse(ManifestOf(file).manifest_version),
                              supported_vvlib_version)
             THEN result'.exc = "HTTPException" /\ result'.status = 422
             ELSE result'.detail # "unsupported"]_vars

\* C3 amended: the same with semantic-version precedence, in which the
\* pre-release ranks after major, minor and patch: a manifest_version above the
\* maximum is rejected with 422 (as unsupported when the version field is
\* valid), one equal to or below it is not rejected as unsupported.
C3_PrecedenceGate ==
    \A file \in VersionArchives :
        HasManifestVersion(file)
        => LET out == Out("A", file)
               mv == parse(ManifestOf(file).manifest_version)
           IN IF PrecedenceGreater(mv, supported_vvlib_version)
              THEN /\ out.result.exc = "HTTPException"
                   /\ out.result.status = 422
                   /\ Len(ManifestOf(file).version) \in {3, 4}
                        => out.result.detail = "unsupported"
              ELSE out.result.detail # "unsupported"

\* an install was rejected as unsupported
C3_Witness ==
    /\ result.op = "install"
    /\ result.status = 422
    /\ result.detail = "unsupported"

\* no entry of the file is in the directory of library_id in new that was not
\* there in old: the other paths are as before, and metas.json is not the
\* file's entry of that name
NoEntryWritten(old, new, library_id, file) ==
    /\ library_id \in DOMAIN new
    /\ \A p \in DOMAIN file.entries :
          IF p = INFO_FILE
          THEN p \in DOMAIN new[library_id] /\ new[library_id][p] # file.entries[p]
          ELSE IF library_id \in DOMAIN old /\ p \in DOMAIN old[library_id]
          THEN p \in DOMAIN new[library_id] /\ new[library_id][p] = old[library_id][p]
          ELSE p \notin DOMAIN new[library_id]

\* C4: for a catalogued library, a file whose manifest carries another
\* engine_uuid than the host's is rejected with 422 for every version and
\* manifest_version, and no entry of it is extracted.
C4_EngineMismatchRejected ==
    \A file \in VersionArchives :
        ManifestOf(file).engine_uuid # engine_uuid
        => LET out == Out("A", file)
           IN /\ out.result.exc = "HTTPException"
              /\ out.result.status = 422
              /\ NoEntryWritten(library_root_dir, out.root, "A", file)

\* an install was rejected for the engine_uuid and its directory holds the
\* metadata document alone
C4_Witness ==
    /\ result.op = "install"
    /\ result.detail = "engine_mismatch"
    /\ result.id \in DOMAIN library_root_dir
    /\ DOMAIN library_root_dir[result.id] = {INFO_FILE}

\* C5 as written: when every install so far has returned (none was rejected),
\* a listing returns a mapping whose keys are exactly the installed ids, the
\* empty mapping when nothing was installed.
C5_ListingIsInstalledSet ==
    (result.op = "list" /\ rejected = {})
    => /\ result.exc = "none"
       /\ installed_libraries_excs(library_root_dir) = {}
       /\ DOMAIN installed_libraries(library_root_dir) = installed_ok

\* C6: when the listing can be read, uninstall_library(P) fails with 404 and
\* changes nothing if P is no key of it, fails with 403 and changes nothing if
\* P is not uninstallable, and else deletes the directory of P, after which the
\* listing has no P and a second uninstall_library(P) fails with 404.
C6_UninstallCases ==
    installed_libraries_excs(library_root_dir) = {}
    => \A id \in LibraryIds :
          LET registry == installed_libraries(library_root_dir)
              out == uninstall_library(library_root_dir, id)
          IN IF id \notin DOMAIN registry
             THEN /\ out.result.exc = "HTTPException"
                  /\ out.result.status = 404
                  /\ out.root = library_root_dir
             ELSE IF ~registry[id].uninstallable
             THEN /\ out.result.exc = "HTTPException"
                  /\ out.result.status = 403
                  /\ out.root = library_root_dir
             ELSE /\ out.result.exc = "none"
                  /\ id \notin DOMAIN out.root
                  /\ installed_libraries_excs(out.root) = {}
                  /\ id \notin DOMAIN installed_libraries(out.root)
                  /\ uninstall_library(out.root, id).result.exc = "HTTPException"
                  /\ uninstall_library(out.root, id).result.status = 404

\* an uninstall has returned, the directory is gone and another library is
\* still installed
C6_Witness ==
    /\ result.op = "uninstall"
    /\ result.exc = "none"
    /\ result.id \notin DOMAIN library_root_dir
    /\ DOMAIN library_root_dir # {}

\* C7: an install that has returned, called again with the same id and file
\* and the catalog as it is, returns again and leaves the root as the first
\* call left it.
C7_InstallIdempotent ==
    \A id \in LibraryIds, file \in Archives :
        LET first == Out(id, file)
        IN first.result.exc = "none"
           => LET second == install_library(first.root, catalog,
                                            supported_vvlib_version, id, file)
              IN /\ second.result = first.result
                 /\ second.root = first.root

\* an install has returned, and the same call again gives the state as it is
C7_Witness ==
    /\ result.op = "install"
    /\ result.exc = "none"
    /\ \E file \in Archives :
          /\ PAYLOAD_FILE \in DOMAIN file.entries
          /\ Out(result.id, file).result = result
          /\ Out(result.id, file).root = library_root_dir

\* C8: an install of a catalogued library with a file that fails a check (no
\* zip, CRC, manifest absent or unreadable, schema, version, manifest_version,
\* engine_uuid) is reported as a failure with 422 and no entry of the file is
\* written into the directory.
C8_NoExtractionOnFailure ==
    \A id \in LibraryIds, file \in Archives :
        (InCatalog(id) /\ ~WellFormedArchive(file))
        => LET out == Out(id, file)
           IN /\ out.result.exc = "HTTPException"
              /\ out.result.status = 422
              /\ NoEntryWritten(library_root_dir, out.root, id, file)

\* an install of a file with a bad CRC was rejected, and the payload of the
\* file is not in the directory
C8_Witness ==
    /\ result.op = "install"
    /\ result.status = 422
    /\ result.detail = "invalid_file"
    /\ result.id \in DOMAIN library_root_dir
    /\ PAYLOAD_FILE \notin DOMAIN library_root_dir[result.id]

\* C9 as written: after an install rejected at a check of the file, the
\* directory exists and holds the metadata document and no extracted content.
C9_RejectedLeavesMetadataOnly ==
    [][(/\ result'.op = "install"
        /\ result'.status = 422
        /\ \E file \in Archives : Install(result'.id, file))
       => (/\ result'.id \in DOMAIN library_root_dir'
           /\ DOMAIN library_root_dir'[result'.id] = {INFO_FILE}
           /\ library_root_dir'[result'.id][INFO_FILE]
                 = json_dump(FirstDescriptor(result'.id)))]_vars

\* C9 amended: after an install rejected at a check of the file, the directory
\* exists and holds the metadata document of the descriptor; a directory the
\* call created holds nothing else, and in a directory that was there every
\* other file is as it was before the call.
C9_RejectedWritesMetadataFirst ==
    \A id \in LibraryIds, file \in Archives :
        LET out == Out(id, file)
        IN out.result.status = 422
           => /\ id \in DOMAIN out.root
              /\ INFO_FILE \in DOMAIN out.root[id]
              /\ out.root[id][INFO_FILE] = json_dump(FirstDescriptor(id))
              /\ IF id \in DOMAIN library_root_dir
                 THEN /\ DOMAIN out.root[id] = DOMAIN library_root_dir[id] \cup {INFO_FILE}
                      /\ \A p \in DOMAIN library_root_dir[id] \ {INFO_FILE} :
                            out.root[id][p] = library_root_dir[id][p]
                 ELSE DOMAIN out.root[id] = {INFO_FILE}

\* an install was rejected for its manifest and the directory holds the
\* metadata document of the descriptor alone
C9_Witness ==
    /\ result.op = "install"
    /\ result.status = 422
    /\ result.detail = "manifest_missing"
    /\ result.id \in DOMAIN library_root_dir
    /\ library_root_dir[result.id]
          = (INFO_FILE :> json_dump(Descriptor(result.id)))

\* C10 as written: after a rejected install of a catalogued library that had
\* no directory, the listing has the library with the descriptor's fields and
\* uninstallable true, and an uninstall of it returns and gives back the root
\* of before the install.
C10_RejectedInstallIsListed ==
    [][(/\ result'.op = "install"
        /\ result'.status = 422
        /\ result'.id \notin DOMAIN library_root_dir
        /\ \E file \in Archives : Install(result'.id, file))
       => (/\ installed_libraries_excs(library_root_dir') = {}
           /\ result'.id \in DOMAIN installed_libraries(library_root_dir')
           /\ installed_libraries(library_root_dir')[result'.id]
                 = FirstDescriptor(result'.id) @@ [uninstallable |-> TRUE]
           /\ uninstall_library(library_root_dir', result'.id).result.exc = "none"
           /\ uninstall_library(library_root_dir', result'.id).root
                 = library_root_dir)]_vars

\* the check of the claim's list that fails first for this call: catalog
\* lookup, zip structure, CRC self-test, manifest present, manifest decodable,
\* manifest schema, version syntax, manifest_version syntax, manifest_version
\* at most the maximum, engine_uuid; "none" when every check passes
FirstFailingCheck(library_id, file) ==
    IF ~InCatalog(library_id) THEN "NotFound"
    ELSE IF ~file.is_zipfile THEN "ArchiveInvalid"
    ELSE IF file.bad # {} THEN "ArchiveCorrupt"
    ELSE IF MANIFEST_FILE \notin DOMAIN file.entries THEN "ManifestAbsent"
    ELSE IF file.entries[MANIFEST_FILE].kind # "json" THEN "ManifestUnreadable"
    ELSE IF ~({"version", "manifest_version", "engine_uuid"}
                 \subseteq DOMAIN ManifestOf(file)) THEN "ManifestMalformed"
    ELSE IF Len(ManifestOf(file).version) \notin {3, 4} THEN "VersionInvalid"
    ELSE IF Len(ManifestOf(file).manifest_version) \notin {3, 4}
        THEN "ManifestVersionInvalid"
    ELSE IF PrecedenceGreater(parse(ManifestOf(file).manifest_version),
                              supported_vvlib_version)
        THEN "ManifestVersionUnsupported"
    ELSE IF ManifestOf(file).engine_uuid # engine_uuid THEN "EngineMismatch"
    ELSE "none"

\* what the caller of install_library can tell an outcome by
Report(res) == <<res.exc, res.status, res.detail>>

\* C11 as written, for a catalog with a descriptor (the empty catalog is the
\* case of C2): the call returns exactly when no check fails, a failed lookup
\* is reported with 404 and a failed check of the file with 422, and two calls
\* are reported alike exactly when the same check of the fixed order is the
\* first to fail, so that the first failing check decides the error and
\* different checks give different errors.
C11_FirstFailureHasOwnKind ==
    Len(catalog) > 0
    => \A id \in LibraryIds, f1 \in Archives :
          LET k1 == FirstFailingCheck(id, f1)
              r1 == Out(id, f1).result
          IN /\ (k1 = "none") <=> (r1.exc = "none")
             /\ (k1 = "NotFound") <=> (r1.status = 404)
             /\ (k1 \notin {"none", "NotFound"}) <=> (r1.status = 422)
             /\ \A f2 \in Archives :
                   (k1 = FirstFailingCheck(id, f2))
                   <=> (Report(r1) = Report(Out(id, f2).result))

\* the file reaches the check of manifest_version against the maximum: its
\* manifest is readable and its version and manifest_version are versions
ReachesVersionGate(file) ==
    /\ HasManifestVersion(file)
    /\ Len(ManifestOf(file).version) \in {3, 4}

\* C12 as written: with the maximum of a manager constructed without a
\* supported version, an install of a catalogued library is rejected with 422
\* as unsupported for every manifest_version other than 0.0.0, and the check
\* of manifest_version passes for 0.0.0 only.
C12_OnlyZeroPasses ==
    supported_vvlib_version = init_supported_vvlib_version(None)
    => \A file \in VersionArchives :
          ReachesVersionGate(file)
          => LET out == Out("A", file)
             IN IF ManifestOf(file).manifest_version # <<0, 0, 0>>
                THEN /\ out.result.exc = "HTTPException"
                     /\ out.result.status = 422
                     /\ out.result.detail = "unsupported"
                ELSE out.result.detail # "unsupported"

\* C12 amended: with the maximum of a manager constructed without a supported
\* version, which is 0.0.0, an install of a catalogued library is rejected
\* with 422 as unsupported for every manifest_version above 0.0.0 in
\* semantic-version precedence, and the check passes for 0.0.0 and for the
\* pre-releases of 0.0.0, which rank below it.
C12_ZeroAndItsPreReleasesPass ==
    supported_vvlib_version = init_supported_vvlib_version(None)
    => /\ supported_vvlib_version
             = [major |-> 0, minor |-> 0, patch |-> 0, prerelease |-> 0]
       /\ \A file \in VersionArchives :
             ReachesVersionGate(file)
             => LET out == Out("A", file)
                    mv == ManifestOf(file).manifest_version
                IN IF mv[1] = 0 /\ mv[2] = 0 /\ mv[3] = 0
                   THEN out.result.detail # "unsupported"
                   ELSE /\ out.result.exc = "HTTPException"
                        /\ out.result.status = 422
                        /\ out.result.detail = "unsupported"

\* under the maximum of a manager constructed without a supported version, an
\* install of a file whose manifest_version is the pre-release 0.0.0-rc.1 has
\* returned and the manifest is in the directory
C12_Witness ==
    /\ supported_vvlib_version = init_supported_vvlib_version(None)
    /\ result.op = "install"
    /\ result.exc = "none"
    /\ "A" \in DOMAIN library_root_dir
    /\ MANIFEST_FILE \in DOMAIN library_root_dir["A"]
    /\ library_root_dir["A"][MANIFEST_FILE].doc.manifest_version = <<0, 0, 0, 1>>

\* the directory has no readable metadata document: none at all, or one that
\* is no JSON document
NoReadableMetadata(dir) ==
    \/ INFO_FILE \notin DOMAIN dir
    \/ dir[INFO_FILE].kind # "json"

ReadErrors == {"FileNotFoundError", "UnicodeDecodeError", "JSONDecodeError"}

\* C13: when a directory of the root has no readable metadata document, every
\* call of installed_libraries raises a read error and returns no mapping, and
\* every call of uninstall_library, for each id (the ids of intact directories
\* too), raises a read error the listing raises and leaves the root as it was.
C13_UnreadableDirectoryFailsListing ==
    (\E d \in DOMAIN library_root_dir : NoReadableMetadata(library_root_dir[d]))
    => /\ \A res \in installed_libraries_call(library_root_dir) :
             res.exc \in ReadErrors
       /\ \A id \in LibraryIds :
             \A out \in uninstall_library_call(library_root_dir, id) :
                /\ out.result.exc \in ReadErrors
                /\ \E res \in installed_libraries_call(library_root_dir) :
                      res.exc = out.result.exc
                /\ out.root = library_root_dir

\* an uninstall of a library whose directory is intact has raised a read
\* error, because another directory has no readable metadata document, and
\* the intact directory is still there
C13_Witness ==
    /\ result.op = "uninstall"
    /\ result.exc \in ReadErrors
    /\ result.id \in DOMAIN library_root_dir
    /\ ~NoReadableMetadata(library_root_dir[result.id])
    /\ \E d \in DOMAIN library_root_dir \ {result.id} :
          NoReadableMetadata(library_root_dir[d])

\* C14 as written: in every state between calls, every directory of the root
\* holds a metadata document that is the descriptor written at install time,
\* whose uuid is the name of the directory; no entry of an archive has taken
\* its place.
C14_MetadataIsDescriptor ==
    \A d \in DOMAIN library_root_dir :
        /\ INFO_FILE \in DOMAIN library_root_dir[d]
        /\ library_root_dir[d][INFO_FILE].kind = "json"
        /\ library_root_dir[d][INFO_FILE].doc.uuid = d
        /\ library_root_dir[d][INFO_FILE] = json_dump(Descriptor(d))

\* C15 as written: in every state between calls, starting from the empty
\* root, every directory of the root holds its metadata document, and no call
\* of installed_libraries raises: each returns the mapping.
C15_RegistryAlwaysListable ==
    /\ \A d \in DOMAIN library_root_dir : INFO_FILE \in DOMAIN library_root_dir[d]
    /\ \A res \in installed_libraries_call(library_root_dir) : res.exc = "none"

\* new is old but for the directory of library_id: every other directory is
\* there with the files it had, and no other directory has appeared
OthersUnchanged(old, new, library_id) ==
    /\ DOMAIN new \ {library_id} = DOMAIN old \ {library_id}
    /\ \A q \in DOMAIN old \ {library_id} : new[q] = old[q]

\* C16, for the calls in the current state: whatever an install or an
\* uninstall of P returns or raises, the directory of every other library is
\* as it was.
C16_OtherDirectoriesKept ==
    /\ \A id \in LibraryIds, file \in Archives :
          OthersUnchanged(library_root_dir, Out(id, file).root, id)
    /\ \A id \in LibraryIds :
          \A out \in uninstall_library_call(library_root_dir, id) :
             OthersUnchanged(library_root_dir, out.root, id)

\* C16, for the steps: a listing leaves the root as it was, and a change of
\* the catalog changes neither what a listing nor what an uninstall gives.
C16_ListAndCatalogSteps ==
    /\ List => library_root_dir' = library_root_dir
    /\ catalog' # catalog
       => /\ installed_libraries_call(library_root_dir')
                = installed_libraries_call(library_root_dir)
          /\ \A id \in LibraryIds :
                uninstall_library_call(library_root_dir', id)
                   = uninstall_library_call(library_root_dir, id)

\* C16: install_library(P) and uninstall_library(P) leave the directory of
\* every other library unchanged, installed_libraries changes nothing on disk,
\* and listing and uninstalling do not depend on the catalog.
C16_Frame == []C16_OtherDirectoriesKept /\ [][C16_ListAndCatalogSteps]_vars

\* a library that is not in the catalog has been uninstalled, and the
\* directory of another library is there with its files
C16_Witness ==
    /\ result.op = "uninstall"
    /\ result.exc = "none"
    /\ ~InCatalog(result.id)
    /\ \E q \in DOMAIN library_root_dir :
          /\ q # result.id
          /\ {INFO_FILE, MANIFEST_FILE, PAYLOAD_FILE} \subseteq DOMAIN library_root_dir[q]

\* C17: whatever install_library returns or raises, every path of the
\* directory before the call is a path of it after the call; when the call
\* returns, each path of the archive holds the archive's entry, the metadata
\* document is written anew (the descriptor, unless the archive has an entry at
\* its path), and every other file is the one that was there before.
C17_InstallDeletesNothing ==
    \A id \in LibraryIds, file \in Archives :
        LET out == Out(id, file)
            before == IF id \in DOMAIN library_root_dir
                      THEN library_root_dir[id] ELSE <<>>
        IN /\ id \in DOMAIN library_root_dir
              => /\ id \in DOMAIN out.root
                 /\ DOMAIN before \subseteq DOMAIN out.root[id]
           /\ out.result.exc = "none"
              => \A p \in DOMAIN out.root[id] :
                    IF p \in DOMAIN file.entries
                    THEN out.root[id][p] = file.entries[p]
                    ELSE IF p = INFO_FILE
                    THEN out.root[id][p] = json_dump(FirstDescriptor(id))
                    ELSE p \in DOMAIN before /\ out.root[id][p] = before[p]

\* an install has returned into a directory that holds model.bin, and the
\* state is the one that an install of an archive without model.bin leaves
\* when it is called on this directory: model.bin stays
C17_Witness ==
    /\ result.op = "install"
    /\ result.exc = "none"
    /\ result.id \in DOMAIN library_root_dir
    /\ PAYLOAD_FILE \in DOMAIN library_root_dir[result.id]
    /\ \E file \in Archives :
          /\ PAYLOAD_FILE \notin DOMAIN file.entries
          /\ Out(result.id, file).result = result
          /\ Out(result.id, file).root = library_root_dir

\* thread p extracts, in this step, into a directory that is not there: an
\* uninstall has deleted it since p wrote the metadata document
ExtractsAfterDelete(p) ==
    /\ calls[p].id \notin DOMAIN library_root_dir
    /\ InstallExtract(p)

\* every call of installed_libraries on root raises a read error
ListingRaises(root) ==
    \A res \in installed_libraries_call(root) : res.exc \in ReadErrors

C18_RaceStep ==
    \A p \in Procs :
        ExtractsAfterDelete(p)
        => /\ result' = Returned("install", calls[p].id, calls[p].id)
           /\ calls[p].id \in DOMAIN library_root_dir'
           /\ library_root_dir'[calls[p].id] = calls[p].file.entries
           /\ PAYLOAD_FILE \in DOMAIN library_root_dir'[calls[p].id]
           /\ NoReadableMetadata(calls[p].file.entries)
              => /\ ListingRaises(library_root_dir')
                 /\ \A id \in LibraryIds :
                       \A out \in uninstall_library_call(library_root_dir', id) :
                          /\ out.result.exc \in ReadErrors
                          /\ out.root = library_root_dir'

\* C18 amended, the states: as long as a directory has no readable metadata
\* document the listing raises.
C18_RaceState ==
    (\E d \in DOMAIN library_root_dir : NoReadableMetadata(library_root_dir[d]))
    => ListingRaises(library_root_dir)

\* C18 amended, the repair: a step that gives such a directory a readable
\* metadata document is the write of metas.json by an install of that library.
C18_RepairStep ==
    \A d \in raced :
        (/\ d \in DOMAIN library_root_dir
         /\ NoReadableMetadata(library_root_dir[d])
         /\ d \in DOMAIN library_root_dir'
         /\ ~NoReadableMetadata(library_root_dir'[d]))
        => \E p \in Procs : calls[p].id = d /\ InstallWriteInfo(p)

C19_ListingSeesInstallMidChange ==
    \A p \in Procs :
        calls[p].op = "install"
        => /\ (calls[p].pc = "mkdir" /\ calls[p].id \notin DOMAIN library_root_dir)
              => LET made == mkdir(library_root_dir, calls[p].id).root
                 IN /\ calls[p].id \in DOMAIN made
                    /\ INFO_FILE \notin DOMAIN made[calls[p].id]
                    /\ ListingRaises(made)
           /\ (/\ calls[p].pc = "write_info"
               /\ calls[p].id \in DOMAIN library_root_dir
               /\ INFO_FILE \notin DOMAIN library_root_dir[calls[p].id])
              => /\ ListingRaises(library_root_dir)
                 /\ \A q \in LibraryIds \ {calls[p].id} :
                       \A out \in uninstall_library_call(library_root_dir, q) :
                          /\ out.result.exc \in ReadErrors
                          /\ out.root = library_root_dir

\* while an install of P is between its mkdir and its write of metas.json, an
\* uninstall of another library Q, installed and intact, has failed with
\* FileNotFoundError, and Q is still there
C19_Witness ==
    \E p \in Procs :
        /\ calls[p].op = "install"
        /\ calls[p].pc = "write_info"
        /\ calls[p].id \in DOMAIN library_root_dir
        /\ INFO_FILE \notin DOMAIN library_root_dir[calls[p].id]
        /\ raced = {}
        /\ result.op = "uninstall"
        /\ result.exc = "FileNotFoundError"
        /\ result.id # calls[p].id
        /\ result.id \in DOMAIN library_root_dir
        /\ PAYLOAD_FILE \in DOMAIN library_root_dir[result.id]
        /\ ~NoReadableMetadata(library_root_dir[result.id])

====
